---- MODULE Spec2Model ----
(***************************************************************************)
(* The AI Real Estate Analyst (src/app.py): a Streamlit script that is     *)
(* re-executed top to bottom on every interaction.  The model keeps the    *)
(* session state (st.session_state), the position of the current script    *)
(* run, and the regex field extraction of lines 123-131.                   *)
(*                                                                         *)
(* Text is modelled as a sequence of one-character strings, so that the    *)
(* substring tests and the regular expressions are computed character by   *)
(* character as Python computes them.                                      *)
(*                                                                         *)
(* A script run is started by one widget at a time (the chat input, a      *)
(* sidebar button, or the on_click callback of Clear Session), and a run   *)
(* that waits for generate_content is not interrupted by a further         *)
(* interaction.  The answers of the generation service are opaque texts    *)
(* other than the welcome text.                                            *)
(***************************************************************************)
EXTENDS Integers, Sequences, FiniteSets, TLC

VARIABLES
    api_key,        \* os.getenv("GEMINI_API_KEY") is set (line 16)
    session_state,  \* st.session_state: a dict with the keys chat_history,
                    \* property_details, first_interaction, or none
    pc,             \* position of the script: "run", "idle", "chat_call",
                    \* "tool_call", "halted" (and "extract", "done" for the
                    \* extractor taken alone)
    widget,         \* what started the current run: "load", "chat",
                    \* "mortgage", "rental", "clear"
    user_input,     \* st.chat_input's value in the current run (line 73)
    prompt,         \* the prompt handed to model.generate_content
    details,        \* the dict comprehension of line 130
    calls,          \* generate_content invocations in the current run
    outcome,        \* how the current run went: "none", "ok", "error"
                    \* (except branch), "warned", "raised" (uncaught)
    exc,            \* the exception generate_content raised in this run
    pre             \* st.session_state when the interaction started

vars == <<api_key, session_state, pc, widget, user_input, prompt, details,
          calls, outcome, exc, pre>>

----------------------------------------------------------------------------
(* Bounds of the model *)

\* chat inputs accepted per session (between two clears)
MaxChats == 2

\* length of the generated strings the extractor is applied to
MaxLen == 4

----------------------------------------------------------------------------
(* Characters *)

UpperCase == <<"A", "B", "C", "D", "E", "F", "G", "H", "I", "J", "K", "L", "M",
               "N", "O", "P", "Q", "R", "S", "T", "U", "V", "W", "X", "Y", "Z">>

LowerCase == <<"a", "b", "c", "d", "e", "f", "g", "h", "i", "j", "k", "l", "m",
               "n", "o", "p", "q", "r", "s", "t", "u", "v", "w", "x", "y", "z">>

\* str.lower() on one character; also the folding re.I applies
Lower(c) ==
    IF \E i \in DOMAIN UpperCase : UpperCase[i] = c
    THEN LowerCase[CHOOSE i \in DOMAIN UpperCase : UpperCase[i] = c]
    ELSE c

\* \d
IsDigit(c) == c \in {"0", "1", "2", "3", "4", "5", "6", "7", "8", "9"}

\* \s
IsSpace(c) == c \in {" ", "\t", "\n", "\r", "\f"}

\* . (without re.DOTALL): any character but a newline
IsDot(c) == c # "\n"

\* $ (without re.MULTILINE) after position e: the end of the string, or just
\* before a newline that ends the string
AtEnd(s, e) == e = Len(s) \/ (e = Len(s) - 1 /\ s[Len(s)] = "\n")

\* the literal lit matches s at position i, case folded (re.I)
MatchesAt(s, i, lit) ==
    /\ i >= 1
    /\ i + Len(lit) - 1 <= Len(s)
    /\ \A m \in 1..Len(lit) : Lower(s[i + m - 1]) = Lower(lit[m])

\* word in user_input.lower()
Contains(s, word) ==
    \E i \in 1..Len(s) :
        /\ i + Len(word) - 1 <= Len(s)
        /\ \A m \in 1..Len(word) : Lower(s[i + m - 1]) = word[m]

SetMin(S) == CHOOSE x \in S : \A y \in S : x <= y

SetMax(S) == CHOOSE x \in S : \A y \in S : x >= y

----------------------------------------------------------------------------
(* Field extraction, lines 123-131 *)

W_worth == <<"w", "o", "r", "t", "h">>
W_value == <<"v", "a", "l", "u", "e">>
W_price == <<"p", "r", "i", "c", "e">>
W_valuation == <<"v", "a", "l", "u", "a", "t", "i", "o", "n">>

TriggerWords == {W_worth, W_value, W_price, W_valuation}

L_in == <<"i", "n">>
L_sqft == <<"s", "q", "f", "t">>
L_square_feet == <<"s", "q", "u", "a", "r", "e", " ", "f", "e", "e", "t">>
L_bed == <<"b", "e", "d">>

\* the extraction made unconditional
HasTrigger_Always(s) == TRUE

\* any(word in user_input.lower() for word in [...])   (line 123)
HasTrigger(s) == \E w \in TriggerWords : Contains(s, w)

\* the result of re.search: None, or a match with its first group
NoMatch == [found |-> FALSE, group1 |-> <<>>]

Match(g) == [found |-> TRUE, group1 |-> g]

\* in\s(.+?)$ started at i: the ends e of the group (.+?) for which the
\* whole pattern matches
LocEnds(s, i) ==
    {e \in (i + 3)..Len(s) :
        /\ MatchesAt(s, i, L_in)
        /\ IsSpace(s[i + 2])
        /\ \A m \in (i + 3)..e : IsDot(s[m])
        /\ AtEnd(s, e)}

\* in\s(\S+): the group bounded by the next whitespace
SearchLocation_Word(s) ==
    LET starts == {i \in 1..Len(s) :
                      /\ MatchesAt(s, i, L_in)
                      /\ i + 3 <= Len(s)
                      /\ IsSpace(s[i + 2])
                      /\ ~IsSpace(s[i + 3])}
    IN  IF starts = {} THEN NoMatch
        ELSE LET i == SetMin(starts)
                 e == SetMax({j \in (i + 3)..Len(s) :
                                 \A m \in (i + 3)..j : ~IsSpace(s[m])})
             IN  Match(SubSeq(s, i + 3, e))

\* re.search(r'in\s(.+?)$', user_input, re.I): the leftmost start, and the
\* lazy group takes the shortest end
SearchLocation(s) ==
    LET starts == {i \in 1..Len(s) : LocEnds(s, i) # {}}
    IN  IF starts = {} THEN NoMatch
        ELSE LET i == SetMin(starts)
             IN  Match(SubSeq(s, i + 3, SetMin(LocEnds(s, i))))

\* (\d+)\s*(lit1|lit2|...) started at i: the ends j of the group (\d+) for
\* which the whole pattern matches
NumEnds(s, i, lits) ==
    {j \in i..Len(s) :
        /\ \A m \in i..j : IsDigit(s[m])
        /\ \E k \in j..Len(s) :
              /\ \A m \in (j + 1)..k : IsSpace(s[m])
              /\ \E lit \in lits : MatchesAt(s, k + 1, lit)}

\* re.search(r'(\d+)\s*(...)', user_input, re.I): the leftmost start, and
\* the greedy group takes the longest end
SearchNumber(s, lits) ==
    LET starts == {i \in 1..Len(s) : NumEnds(s, i, lits) # {}}
    IN  IF starts = {} THEN NoMatch
        ELSE LET i == SetMin(starts)
             IN  Match(SubSeq(s, i, SetMax(NumEnds(s, i, lits))))

SearchSize(s) == SearchNumber(s, {L_sqft, L_square_feet})

SearchBeds(s) == SearchNumber(s, {L_bed})

\* details = {"location": ..., "size": ..., "beds": ...}   (lines 124-128)
Searches(s) ==
    [location |-> SearchLocation(s), size |-> SearchSize(s), beds |-> SearchBeds(s)]

\* {k: v.group(1) for k, v in details.items() if v}   (line 130)
Details(s) ==
    LET d == Searches(s)
        keys == {k \in DOMAIN d : d[k].found}
    IN  IF keys = {} THEN <<>> ELSE [k \in keys |-> d[k].group1]

----------------------------------------------------------------------------
(* Inputs *)

\* "3 bed in Austin 1500 sqft"
In_BedAustin == <<"3", " ", "b", "e", "d", " ", "i", "n", " ", "A", "u", "s", "t", "i", "n", " ", "1", "5", "0", "0", " ", "s", "q", "f", "t">>

\* "price 2 bed in Miami"
In_PriceMiami == <<"p", "r", "i", "c", "e", " ", "2", " ", "b", "e", "d", " ", "i", "n", " ", "M", "i", "a", "m", "i">>

\* "Value 900 sqft"
In_ValueSqft == <<"V", "a", "l", "u", "e", " ", "9", "0", "0", " ", "s", "q", "f", "t">>

\* "worth in Reno 4 beds"
In_WorthReno == <<"w", "o", "r", "t", "h", " ", "i", "n", " ", "R", "e", "n", "o", " ", "4", " ", "b", "e", "d", "s">>

\* "explain cap rates"
In_CapRates == <<"e", "x", "p", "l", "a", "i", "n", " ", "c", "a", "p", " ", "r", "a", "t", "e", "s">>

\* "valuation"
In_Valuation == <<"v", "a", "l", "u", "a", "t", "i", "o", "n">>

\* "PRICE 12 Square Feet\n"
In_SquareFeet == <<"P", "R", "I", "C", "E", " ", "1", "2", " ", "S", "q", "u", "a", "r", "e", " ", "F", "e", "e", "t", "\n">>

\* "Berlin 7bed\nin Rio\n"
In_Berlin == <<"B", "e", "r", "l", "i", "n", " ", "7", "b", "e", "d", "\n", "i", "n", " ", "R", "i", "o", "\n">>

\* what the user types into st.chat_input
ChatInputs ==
    {In_BedAustin, In_PriceMiami, In_ValueSqft, In_WorthReno, In_CapRates,
     In_Valuation}

Alphabet == {"i", "N", " ", "\n", "a", "7"}

\* every string over Alphabet of length 1..MaxLen
Generated == UNION {[1..n -> Alphabet] : n \in 1..MaxLen}

\* the strings the extractor is applied to when taken alone
ExtractInputs == ChatInputs \cup {In_SquareFeet, In_Berlin} \cup Generated

----------------------------------------------------------------------------
(* Texts *)

\* the welcome text of lines 48-66
Welcome == <<"Hello! I'm your AI Real Estate Analyst. ...">>

\* the f-string prefix of line 137 (its warning sign left out)
ErrIndicator == "Error analyzing property: "

\* response.text: what the generation service answers
Replies == {<<"reply">>}

\* str(e) of what generate_content (or response.text) raises
Exceptions == {<<"quota exceeded">>, <<"timed out">>}

\* f"... Error analyzing property: {str(e)}"   (line 137)
ErrorMsg(e) == <<ErrIndicator>> \o e

\* {"role": ..., "content": ...}
Turn(role, content) == [role |-> role, content |-> content]

\* the f-string of lines 82-114: fixed instructions around the verbatim input
ChatPrompt(inp) == <<"You're an expert real estate analyst ... The user asked:">> \o inp

\* dict.get(key, default)
Get(d, key, default) == IF key \in DOMAIN d THEN d[key] ELSE default

\* the f-strings of lines 159 and 168
ToolPrompt(t, pd) ==
    IF t = "mortgage"
    THEN <<"Estimate monthly mortgage for">> \o Get(pd, "size", <<>>)
             \o <<"property in">> \o pd["location"] \o <<"at current rates">>
    ELSE <<"Estimate rental income for">> \o Get(pd, "beds", <<>>)
             \o <<"bedroom in">> \o pd["location"]

Tools == {"mortgage", "rental"}

----------------------------------------------------------------------------
(* st.session_state *)

\* the dict after st.session_state.clear(), and of a new session
EmptySession == <<>>

\* st.session_state.chat_history, empty while the key is absent
Transcript == Get(session_state, "chat_history", <<>>)

\* st.session_state.property_details, empty while the key is absent
PropertyRecord == Get(session_state, "property_details", <<>>)

\* the record and the transcript when the interaction started
PreRecord == Get(pre, "property_details", <<>>)

PreTranscript == Get(pre, "chat_history", <<>>)

\* the user turns of the transcript
NumUserTurns == Cardinality({i \in DOMAIN Transcript : Transcript[i].role = "user"})

\* lines 36-39 without their guard: the session is reset in every run
InitSession_Unconditional(ss) ==
    [chat_history |-> <<>>, property_details |-> <<>>, first_interaction |-> TRUE]

\* lines 36-39
InitSession(ss) ==
    IF "chat_history" \notin DOMAIN ss
    THEN [chat_history |-> <<>>, property_details |-> <<>>, first_interaction |-> TRUE]
    ELSE ss

\* lines 47-70 without line 70: the greeting is appended in every run
Greet_Always(ss) ==
    [ss EXCEPT !.chat_history = Append(@, Turn("assistant", Welcome))]

\* lines 47-70
Greet(ss) ==
    IF ss.first_interaction
    THEN [ss EXCEPT !.chat_history = Append(@, Turn("assistant", Welcome)),
                    !.first_interaction = FALSE]
    ELSE ss

\* what every script run does before it reads the widgets (lines 36-70)
Preamble(ss) == Greet(InitSession(ss))

\* the record replaced by the new fields
DictUpdate_Replace(d, new) == new

\* dict.update (line 129)
DictUpdate(d, new) ==
    IF DOMAIN new = {} THEN d
    ELSE [k \in DOMAIN d \cup DOMAIN new |-> IF k \in DOMAIN new THEN new[k] ELSE d[k]]

----------------------------------------------------------------------------
(* The script *)

Init ==
    /\ api_key \in BOOLEAN
    /\ session_state = EmptySession
    /\ pc = "run"
    /\ widget = "load"
    /\ user_input = <<>>
    /\ prompt = <<>>
    /\ details = <<>>
    /\ calls = 0
    /\ outcome = "none"
    /\ exc = <<>>
    /\ pre = EmptySession

\* lines 18-20: no key, st.stop() before anything is shown
Halt ==
    /\ pc = "run"
    /\ ~api_key
    /\ pc' = "halted"
    /\ UNCHANGED <<api_key, session_state, widget, user_input, prompt, details,
                   calls, outcome, exc, pre>>

\* a run with no widget value: the first load, and the rerun that follows the
\* on_click callback of Clear Session
ScriptRun ==
    /\ pc = "run"
    /\ api_key
    /\ session_state' = Preamble(session_state)
    /\ user_input' = <<>>
    /\ prompt' = <<>>
    /\ details' = <<>>
    /\ calls' = 0
    /\ outcome' = "none"
    /\ exc' = <<>>
    /\ pc' = "idle"
    /\ UNCHANGED <<api_key, widget, pre>>

\* lines 73-119: the user submits inp; the run appends the user turn and
\* calls generate_content
ChatSubmit(inp) ==
    /\ pc = "idle"
    /\ NumUserTurns < MaxChats
    /\ widget' = "chat"
    /\ pre' = session_state
    /\ user_input' = inp
    /\ session_state' =
          [Preamble(session_state) EXCEPT
              !.chat_history = Append(@, Turn("user", inp))]
    /\ prompt' = ChatPrompt(inp)
    /\ calls' = 1
    /\ details' = <<>>
    /\ outcome' = "none"
    /\ exc' = <<>>
    /\ pc' = "chat_call"
    /\ UNCHANGED api_key

\* lines 120-134, then the sidebar with no button pressed (lines 142-174)
ChatReturns(reply) ==
    /\ pc = "chat_call"
    /\ LET hit == HasTrigger(user_input)
           d == IF hit THEN Details(user_input) ELSE <<>>
           ss == IF hit
                 THEN [session_state EXCEPT !.property_details = DictUpdate(@, d)]
                 ELSE session_state
       IN  /\ details' = d
           /\ session_state' =
                 [ss EXCEPT !.chat_history = Append(@, Turn("assistant", reply))]
    /\ outcome' = "ok"
    /\ pc' = "idle"
    /\ UNCHANGED <<api_key, widget, user_input, prompt, calls, exc, pre>>

\* the call is made again after a failure
ChatRaises_Retry(e) ==
    /\ pc = "chat_call"
    /\ calls < 2
    /\ calls' = calls + 1
    /\ exc' = e
    /\ UNCHANGED <<api_key, session_state, pc, widget, user_input, prompt,
                   details, outcome, pre>>

\* no try/except: the exception leaves the script
ChatRaises_Propagates(e) ==
    /\ pc = "chat_call"
    /\ outcome' = "raised"
    /\ exc' = e
    /\ pc' = "idle"
    /\ UNCHANGED <<api_key, session_state, widget, user_input, prompt, details,
                   calls, pre>>

\* lines 136-139, then the sidebar with no button pressed
ChatRaises(e) ==
    /\ pc = "chat_call"
    /\ session_state' =
          [session_state EXCEPT
              !.chat_history = Append(@, Turn("assistant", ErrorMsg(e)))]
    /\ outcome' = "error"
    /\ exc' = e
    /\ pc' = "idle"
    /\ UNCHANGED <<api_key, widget, user_input, prompt, details, calls, pre>>

\* lines 156-163 and 165-172: a button of the sidebar is pressed; the run
\* calls generate_content when a location is known, and warns otherwise
ToolClick(t) ==
    /\ pc = "idle"
    /\ widget' = t
    /\ pre' = session_state
    /\ session_state' = Preamble(session_state)
    /\ user_input' = <<>>
    /\ details' = <<>>
    /\ exc' = <<>>
    /\ IF "location" \in DOMAIN session_state.property_details
       THEN /\ prompt' = ToolPrompt(t, session_state.property_details)
            /\ calls' = 1
            /\ outcome' = "none"
            /\ pc' = "tool_call"
       ELSE /\ prompt' = <<>>
            /\ calls' = 0
            /\ outcome' = "warned"
            /\ pc' = "idle"
    /\ UNCHANGED api_key

\* lines 161 and 170: the answer is shown, nothing is stored
ToolReturns(reply) ==
    /\ pc = "tool_call"
    /\ outcome' = "ok"
    /\ pc' = "idle"
    /\ UNCHANGED <<api_key, session_state, widget, user_input, prompt, details,
                   calls, exc, pre>>

\* lines 160 and 169 stand in no try: the exception ends the run
ToolRaises(e) ==
    /\ pc = "tool_call"
    /\ outcome' = "raised"
    /\ exc' = e
    /\ pc' = "idle"
    /\ UNCHANGED <<api_key, session_state, widget, user_input, prompt, details,
                   calls, pre>>

\* the lists are emptied, the keys stay
ClearSession_KeepKeys ==
    /\ pc = "idle"
    /\ widget' = "clear"
    /\ pre' = session_state
    /\ session_state' =
          [session_state EXCEPT !.chat_history = <<>>, !.property_details = <<>>]
    /\ user_input' = <<>>
    /\ prompt' = <<>>
    /\ details' = <<>>
    /\ calls' = 0
    /\ outcome' = "none"
    /\ exc' = <<>>
    /\ pc' = "run"
    /\ UNCHANGED api_key

\* line 174: the on_click callback, which runs before the script is rerun
ClearSession ==
    /\ pc = "idle"
    /\ widget' = "clear"
    /\ pre' = session_state
    /\ session_state' = EmptySession
    /\ user_input' = <<>>
    /\ prompt' = <<>>
    /\ details' = <<>>
    /\ calls' = 0
    /\ outcome' = "none"
    /\ exc' = <<>>
    /\ pc' = "run"
    /\ UNCHANGED api_key

Next ==
    \/ Halt
    \/ ScriptRun
    \/ \E inp \in ChatInputs : ChatSubmit(inp)
    \/ \E reply \in Replies : ChatReturns(reply)
    \/ \E e \in Exceptions : ChatRaises(e)
    \/ \E t \in Tools : ToolClick(t)
    \/ \E reply \in Replies : ToolReturns(reply)
    \/ \E e \in Exceptions : ToolRaises(e)
    \/ ClearSession

Spec == Init /\ [][Next]_vars

----------------------------------------------------------------------------
(* The extractor taken alone: lines 124-131 applied to any input *)

InitExtract ==
    /\ api_key = TRUE
    /\ session_state = EmptySession
    /\ pc = "extract"
    /\ widget = "chat"
    /\ user_input \in ExtractInputs
    /\ prompt = <<>>
    /\ details = <<>>
    /\ calls = 0
    /\ outcome = "none"
    /\ exc = <<>>
    /\ pre = EmptySession

ExtractStep ==
    /\ pc = "extract"
    /\ details' = Details(user_input)
    /\ pc' = "done"
    /\ UNCHANGED <<api_key, session_state, widget, user_input, prompt, calls,
                   outcome, exc, pre>>

NextExtract == ExtractStep

SpecExtract == InitExtract /\ [][NextExtract]_vars

----------------------------------------------------------------------------
(* Properties *)

\* s holds none of the four trigger words, in any case
NoTriggerWord(s) ==
    \A w \in {W_worth, W_value, W_price, W_valuation} : ~Contains(s, w)

\* the current run processes a chat input and has ended
ChatRunDone == widget = "chat" /\ pc = "idle"

\* turn t is an error turn carrying the text of exception e
IsErrorTurn(t, e) ==
    /\ t.role = "assistant"
    /\ t.content = <<ErrIndicator>> \o e

IsPrefix(s, t) == Len(s) <= Len(t) /\ \A i \in 1..Len(s) : s[i] = t[i]

\* C1: a chat input with no trigger word leaves the PropertyRecord as it was
\* before the input, whether the generation call succeeded or failed.
C1_NoTriggerKeepsRecord ==
    (ChatRunDone /\ NoTriggerWord(user_input)) => PropertyRecord = PreRecord

\* a non-empty record has survived the input "3 bed in Austin 1500 sqft",
\* which has no trigger word and three fields the patterns match
C1_Witness ==
    /\ ChatRunDone
    /\ outcome = "ok"
    /\ user_input = In_BedAustin
    /\ DOMAIN PreRecord # {}
    /\ PropertyRecord = PreRecord

\* C2: when the generation call fails for a chat input, the exception is
\* caught, the run ends normally, and the transcript is the one before the
\* input followed by the user turn with the verbatim input and by one
\* assistant turn made of the error indicator and the exception text.
C2_FailureAddsTwoTurns ==
    (widget = "chat" /\ exc # <<>>) =>
        /\ pc = "idle"
        /\ outcome = "error"
        /\ exc \in Exceptions
        /\ Transcript = PreTranscript \o
              <<[role |-> "user", content |-> user_input],
                [role |-> "assistant", content |-> <<ErrIndicator>> \o exc]>>

\* a second failing input of a session: the first failure was followed by a
\* further input, which was processed and failed in turn
C2_Witness ==
    /\ ChatRunDone
    /\ outcome = "error"
    /\ Len(Transcript) = 5
    /\ \E e \in Exceptions : IsErrorTurn(Transcript[3], e)
    /\ IsErrorTurn(Transcript[5], exc)

\* C3: Clear Session leaves an empty transcript and an empty PropertyRecord
\* and no chat_history key, so that the run that follows initialises the
\* session again and greets once: after it the transcript is exactly the
\* greeting and the PropertyRecord is empty.
C3_ClearThenGreeting ==
    /\ (widget = "clear" /\ pc = "run") =>
          /\ Transcript = <<>>
          /\ DOMAIN PropertyRecord = {}
          /\ "chat_history" \notin DOMAIN session_state
    /\ (widget = "clear" /\ pc = "idle") =>
          /\ Transcript = <<[role |-> "assistant", content |-> Welcome]>>
          /\ DOMAIN PropertyRecord = {}
          /\ session_state.first_interaction = FALSE

\* the run after a clear has ended, and the session that was cleared held a
\* chat and a record
C3_Witness ==
    /\ widget = "clear"
    /\ pc = "idle"
    /\ Len(PreTranscript) >= 3
    /\ DOMAIN PreRecord # {}

\* C4: every step but Clear Session keeps the transcript it finds as a prefix
\* of the transcript it leaves: turns are only appended, never changed,
\* reordered or removed.
C4_AppendOnly ==
    [][(widget' = "clear" /\ pc' = "run") \/ IsPrefix(Transcript, Transcript')]_vars

\* five turns are read back after two chats and a sidebar click
C4_Witness ==
    /\ pc = "idle"
    /\ widget \in Tools
    /\ Len(Transcript) = 5
    /\ Transcript[2].role = "user"
    /\ Transcript[4].role = "user"
    /\ Transcript[2].content # Transcript[4].content

\* C5 as stated: after a trigger-word query has been detected and processed,
\* the PropertyRecord holds exactly the fields captured from that query.
C5_OverwrittenWholesale ==
    (ChatRunDone /\ outcome = "ok" /\ ~NoTriggerWord(user_input)) =>
        PropertyRecord = Details(user_input)

\* C5 amended: after a trigger-word query whose generation call succeeded,
\* every field captured from the query holds the new capture and every other
\* field is as it was before the query (present with its old value, or
\* absent); after one whose call failed, the record is as it was.
C5_MergedPerField ==
    /\ (ChatRunDone /\ outcome = "ok" /\ ~NoTriggerWord(user_input)) =>
          \A k \in {"location", "size", "beds", "price"} :
              IF k \in DOMAIN Details(user_input)
              THEN /\ k \in DOMAIN PropertyRecord
                   /\ PropertyRecord[k] = Details(user_input)[k]
              ELSE /\ (k \in DOMAIN PropertyRecord) = (k \in DOMAIN PreRecord)
                   /\ k \in DOMAIN PreRecord => PropertyRecord[k] = PreRecord[k]
    /\ (ChatRunDone /\ outcome = "error") => PropertyRecord = PreRecord

\* "Value 900 sqft" has been processed on a record that held a location: the
\* size is new and the location of the earlier query is still there
C5_Witness ==
    /\ ChatRunDone
    /\ outcome = "ok"
    /\ user_input = In_ValueSqft
    /\ "location" \in DOMAIN PreRecord
    /\ "location" \in DOMAIN PropertyRecord
    /\ "size" \in DOMAIN PropertyRecord

\* the last position of s that $ lets the location group end at
LineEnd(s) == IF s[Len(s)] = "\n" THEN Len(s) - 1 ELSE Len(s)

\* "in" and one whitespace stand at i, and what follows up to LineEnd is
\* not empty and holds no newline
LocationStart(s, i) ==
    /\ i + 3 <= LineEnd(s)
    /\ Lower(s[i]) = "i"
    /\ Lower(s[i + 1]) = "n"
    /\ IsSpace(s[i + 2])
    /\ \A m \in (i + 3)..LineEnd(s) : s[m] # "\n"

\* C6 as stated: "3 bed in Austin 1500 sqft" yields beds 3, location Austin,
\* size 1500 and no price, and a captured location holds no whitespace.
C6_LocationUpToWhitespace ==
    pc = "done" =>
        /\ user_input = In_BedAustin =>
              details = [beds |-> <<"3">>,
                         location |-> <<"A", "u", "s", "t", "i", "n">>,
                         size |-> <<"1", "5", "0", "0">>]
        /\ "location" \in DOMAIN details =>
              \A m \in DOMAIN details.location : ~IsSpace(details.location[m])

\* C6 amended: the location is all the text after "in" and one whitespace up
\* to the end of the input (one final newline left out), taken at the first
\* place where that text is not empty and holds no newline; it is absent
\* when there is no such place.  "3 bed in Austin 1500 sqft" yields beds 3,
\* location "Austin 1500 sqft", size 1500 and no price.
C6_LocationToEndOfInput ==
    pc = "done" =>
        /\ user_input = In_BedAustin =>
              details = [beds |-> <<"3">>,
                         location |-> <<"A", "u", "s", "t", "i", "n", " ",
                                        "1", "5", "0", "0", " ", "s", "q", "f", "t">>,
                         size |-> <<"1", "5", "0", "0">>]
        /\ "price" \notin DOMAIN details
        /\ ("location" \in DOMAIN details) =
              (\E i \in 1..Len(user_input) : LocationStart(user_input, i))
        /\ "location" \in DOMAIN details =>
              \E i \in 1..Len(user_input) :
                  /\ LocationStart(user_input, i)
                  /\ \A j \in 1..(i - 1) : ~LocationStart(user_input, j)
                  /\ details.location = SubSeq(user_input, i + 3, LineEnd(user_input))

\* the extractor has run on "3 bed in Austin 1500 sqft" and the location it
\* captured holds whitespace
C6_Witness ==
    /\ pc = "done"
    /\ user_input = In_BedAustin
    /\ "location" \in DOMAIN details
    /\ \E m \in DOMAIN details.location : IsSpace(details.location[m])

\* C7: whichever interaction made the call, a failure of the generation
\* service is caught and ends as an assistant turn with the exception text.
C7_EveryFailureCaught ==
    (pc = "idle" /\ exc # <<>>) =>
        /\ outcome = "error"
        /\ Len(Transcript) > 0
        /\ IsErrorTurn(Transcript[Len(Transcript)], exc)

\* C8: for a chat input with a trigger word, the captured fields are in the
\* PropertyRecord when the call is dispatched, and are there whatever the
\* outcome of the call.
C8_MergedBeforeCall ==
    ((pc = "chat_call" \/ (ChatRunDone /\ outcome = "error"))
        /\ ~NoTriggerWord(user_input)) =>
        \A k \in DOMAIN Details(user_input) :
            /\ k \in DOMAIN PropertyRecord
            /\ PropertyRecord[k] = Details(user_input)[k]

\* C9: the run that processes a chat input calls the generation service
\* once, while the call is out the transcript ends with the user turn, and
\* the assistant turn is there only when the call has returned or failed.
C9_OneCallPerInput ==
    /\ (widget = "chat" /\ pc \in {"chat_call", "idle"}) => calls = 1
    /\ pc = "chat_call" =>
          /\ outcome = "none"
          /\ Transcript = PreTranscript \o <<[role |-> "user", content |-> user_input]>>
    /\ ChatRunDone =>
          /\ outcome \in {"ok", "error"}
          /\ Len(Transcript) = Len(PreTranscript) + 2
          /\ Transcript[Len(Transcript)].role = "assistant"

\* a chat run whose only call failed has ended
C9_Witness ==
    /\ ChatRunDone
    /\ outcome = "error"
    /\ calls = 1
    /\ exc \in Exceptions

\* greeting, (user, assistant)*
Shape(h) ==
    /\ Len(h) % 2 = 1
    /\ h[1] = [role |-> "assistant", content |-> Welcome]
    /\ \A i \in 2..Len(h) : h[i].content # Welcome
    /\ \A i \in 1..Len(h) : h[i].role = (IF i % 2 = 0 THEN "user" ELSE "assistant")

\* C10: whenever a script run of a session has ended, the transcript is the
\* greeting, once, followed by pairs of a user turn and an assistant turn;
\* and a run started by a sidebar button leaves the transcript as it was.
C10_GreetingThenPairs ==
    pc = "idle" =>
        /\ Shape(Transcript)
        /\ widget \in Tools => Transcript = PreTranscript

\* a sidebar call has failed in a session that holds a failed and a
\* successful chat
C10_Witness ==
    /\ pc = "idle"
    /\ widget \in Tools
    /\ outcome = "raised"
    /\ Len(Transcript) = 5
    /\ \E e \in Exceptions : IsErrorTurn(Transcript[3], e)
    /\ Transcript[5].content \in Replies

====
